---- MODULE Spec2Model ----
(***************************************************************************)
(* A model of the data-access layer of dev-events: the cached MongoDB      *)
(* connection (lib/mongoose.ts, kept here as src/unnamed/part_002), the    *)
(* Event model with its pre-save normalisation                             *)
(* (src/database/event.model.ts) and the Booking model with its reference  *)
(* check (database/booking.model.ts, kept here as src/unnamed/part_000).   *)
(*                                                                         *)
(* JavaScript runs one synchronous segment at a time, so every action is   *)
(* one such segment: a call up to its first await, a promise handler, or a *)
(* continuation after an await.                                            *)
(***************************************************************************)
EXTENDS Integers, Sequences, FiniteSets, TLC

\* Bounds of the model.
NCallers == 2
MaxAttempts == 3
MaxTitleLen == 4
MaxEvents == 2
MaxBookings == 2

Callers == 1..NCallers
Attempts == 1..MaxAttempts

\* null, as held by cached.conn and cached.promise.
Null == 0

\* The values process.env.MONGODB_URL may have at process start.
Undefined == "undefined"
UrlValues == {Undefined, "", "mongodb://localhost:27017/db"}

\* A mongoose.connection.readyState outside the states table (uninitialized).
Uninitialized == 99

VARIABLES
    MONGODB_URL,  \* process.env.MONGODB_URL
    loaded,       \* the module: "unloaded", "loaded", or "failed" (threw on load)
    cached,       \* the cache: [conn |-> handle or Null, promise |-> attempt or Null]
    attempts,     \* each mongoose.connect call and the connection it opened:
                  \* "none", "pending", "failed", "open", "closing", "closed"
    started,      \* how many mongoose.connect calls were made
    pc,           \* each caller's position
    waits,        \* the promise (attempt) a caller captured at its await
    lastRet,      \* the most recent return of a call: what the caller got, the state
                  \* of the handle (or the ready state read) at that moment, whether
                  \* the call had awaited, and, for a waiter, whether it was the
                  \* first (1) or a later one (2) of its attempt to be served
    observed,     \* per attempt, the outcomes its waiters received: <<kind, handle>>
    readyState,   \* mongoose.connection.readyState
    title,        \* Event.title of the candidate (the Event document in memory)
    slug,         \* Event.slug of the candidate
    saved,        \* the outcome of the candidate's last save(): "new" before any,
                  \* "saved", or the message of the error it was rejected with
    date,         \* Event.date of the candidate
    time,         \* Event.time of the candidate
    agenda,       \* Event.agenda of the candidate
    tags,         \* Event.tags of the candidate
    docId,        \* the candidate's _id
    isNew,        \* the candidate's isNew
    modified,     \* the paths of the candidate modified since it was loaded or saved
    events,       \* the events collection: _id -> stored document, or NoDoc
    tz,           \* the offset of the process's time zone from UTC, in minutes
    given,        \* the title, date and time as the caller last gave them to the
                  \* candidate (as held, once the document was loaded or saved)
    bEventId,     \* Booking.eventId of the candidate (the Booking document in memory)
    bEmail,       \* Booking.email of the candidate
    bId,          \* the Booking candidate's _id
    bIsNew,       \* the Booking candidate's isNew
    bModified,    \* the paths of the Booking candidate modified since load or save
    bSaved,       \* the outcome of the Booking candidate's last save(), as `saved`,
                  \* or "saving" while the save is in progress
    bpc,          \* the position of the Booking save in progress: "idle", "exists"
                  \* (awaiting Event.exists), "write" (the hook called next())
    reads,        \* the Event.exists reads made by the Booking candidate's last save
    bookings      \* the bookings collection: _id -> stored document, or NoBooking

connVars == <<MONGODB_URL, loaded, cached, attempts, started, pc, waits,
              lastRet, observed, readyState>>
eventVars == <<title, slug, saved, date, time, agenda, tags, docId, isNew, modified,
               events, tz, given>>
bookingVars == <<bEventId, bEmail, bId, bIsNew, bModified, bSaved, bpc, reads, bookings>>
vars == <<MONGODB_URL, loaded, cached, attempts, started, pc, waits,
          lastRet, observed, readyState, title, slug, saved, date, time, agenda, tags,
          docId, isNew, modified, events, tz, given,
          bEventId, bEmail, bId, bIsNew, bModified, bSaved, bpc, reads, bookings>>

----------------------------------------------------------------------------
\* The connection cache.

\* `!MONGODB_URL`: undefined and the empty string are falsy.
Falsy(v) == v \in {Undefined, ""}

\* const cached = global.mongoose || { conn: null, promise: null }
\* (global.mongoose is undefined at process start).
EmptyCache == [conn |-> Null, promise |-> Null]

\* Nothing has returned yet.
NoRet == [kind |-> "none", h |-> Null, hstate |-> "none", awaited |-> FALSE, nth |-> 0]

\* What a call returned: a handle and the state of its connection at that moment.
Ret(kind, h, awaited, nth) ==
    [kind |-> kind, h |-> h, hstate |-> IF h = Null THEN "none" ELSE attempts[h],
     awaited |-> awaited, nth |-> nth]

\* The handle a connection attempt resolves to stands for the connection it opened.
HandleOf(a) == a

ResolvedOnSuccess(a) == attempts[a] = "open"
Resolved(a) == attempts[a] \notin {"none", "pending"}
Succeeded(a) == attempts[a] \in {"open", "closing", "closed"}

InitCache ==
    /\ MONGODB_URL \in UrlValues
    /\ loaded = "unloaded"
    /\ cached = EmptyCache
    /\ attempts = [a \in Attempts |-> "none"]
    /\ started = 0
    /\ pc = [c \in Callers |-> "idle"]
    /\ waits = [c \in Callers |-> Null]
    /\ lastRet = NoRet
    /\ observed = [a \in Attempts |-> {}]
    /\ readyState = 0

\* Evaluation of the module: throws when the connection string is missing.
ThrowsOnLoadNever(url) == FALSE
ThrowsOnLoad(url) == Falsy(url)

LoadModule ==
    /\ loaded = "unloaded"
    /\ loaded' = IF ThrowsOnLoad(MONGODB_URL) THEN "failed" ELSE "loaded"
    /\ cached' = EmptyCache
    /\ UNCHANGED <<eventVars, bookingVars>>
    /\ UNCHANGED <<MONGODB_URL, attempts, started, pc, waits, lastRet, observed,
                   readyState>>

\* Whether connectToDatabase returns at once: `if (cached.conn)`.
HasConnNever(cache) == FALSE
HasConn(cache) == cache.conn # Null

\* Whether connectToDatabase opens a new connection: `if (!cached.promise)`.
MustConnectAlways(cache) == TRUE
MustConnect(cache) == cache.promise = Null

\* connectToDatabase(), up to its return (handle cached) or its await.
connectToDatabase(c) ==
    /\ loaded = "loaded"
    /\ pc[c] = "idle"
    /\ IF HasConn(cached)
       THEN /\ lastRet' = Ret("handle", cached.conn, FALSE, 0)
            /\ UNCHANGED <<cached, attempts, started, pc, waits, readyState>>
       ELSE IF MustConnect(cached)
       THEN /\ started < MaxAttempts
            /\ started' = started + 1
            /\ attempts' = [attempts EXCEPT ![started + 1] = "pending"]
            /\ cached' = [cached EXCEPT !.promise = started + 1]
            /\ readyState' = 2
            /\ pc' = [pc EXCEPT ![c] = "awaiting"]
            /\ waits' = [waits EXCEPT ![c] = started + 1]
            /\ UNCHANGED lastRet
       ELSE /\ pc' = [pc EXCEPT ![c] = "awaiting"]
            /\ waits' = [waits EXCEPT ![c] = cached.promise]
            /\ UNCHANGED <<cached, attempts, started, readyState, lastRet>>
    /\ UNCHANGED <<eventVars, bookingVars>>
    /\ UNCHANGED <<MONGODB_URL, loaded, observed>>

\* mongoose.connect resolves and the .then handler passes the handle on.
connectResolved(a) ==
    /\ attempts[a] = "pending"
    /\ attempts' = [attempts EXCEPT ![a] = "open"]
    /\ readyState' = 1
    /\ UNCHANGED <<eventVars, bookingVars>>
    /\ UNCHANGED <<MONGODB_URL, loaded, cached, started, pc, waits, lastRet,
                   observed>>

\* What the .catch handler of the attempt leaves in the cache.
CatchHandler(cache) == [cache EXCEPT !.promise = Null]

\* mongoose.connect rejects and the .catch handler resets the promise and rethrows.
connectRejected(a) ==
    /\ attempts[a] = "pending"
    /\ attempts' = [attempts EXCEPT ![a] = "failed"]
    /\ cached' = CatchHandler(cached)
    /\ readyState' = 0
    /\ UNCHANGED <<eventVars, bookingVars>>
    /\ UNCHANGED <<MONGODB_URL, loaded, started, pc, waits, lastRet, observed>>

\* The handle connectToDatabase returns after `cached.conn = await cached.promise`,
\* given the cache before the assignment and the awaited value.
ReturnedStale(cache, v) == cache.conn
Returned(cache, v) == v

\* What the waiter's catch block leaves in the cache.
WaiterCatch(cache) == [conn |-> Null, promise |-> Null]

\* How the waiter's catch block ends: it rethrows.
WaiterCatchEndsSwallow == "handle"
WaiterCatchEnds == "error"

\* Whether the waiter now served is the first of its attempt (1) or a later one (2).
Nth(a) == IF observed[a] = {} THEN 1 ELSE 2

\* The continuation of connectToDatabase after its await.
connectResume(c) ==
    /\ pc[c] = "awaiting"
    /\ Resolved(waits[c])
    /\ LET a == waits[c] IN
       IF Succeeded(a)
       THEN LET r == Returned(cached, HandleOf(a)) IN
            /\ cached' = [cached EXCEPT !.conn = HandleOf(a)]
            /\ lastRet' = Ret("handle", r, TRUE, Nth(a))
            /\ observed' = [observed EXCEPT ![a] = @ \cup {<<"handle", r>>}]
       ELSE /\ cached' = WaiterCatch(cached)
            /\ lastRet' = Ret(WaiterCatchEnds, Null, TRUE, Nth(a))
            /\ observed' = [observed EXCEPT ![a] = @ \cup {<<WaiterCatchEnds, Null>>}]
    /\ pc' = [pc EXCEPT ![c] = "idle"]
    /\ waits' = [waits EXCEPT ![c] = Null]
    /\ UNCHANGED <<eventVars, bookingVars>>
    /\ UNCHANGED <<MONGODB_URL, loaded, attempts, started, readyState>>

\* Whether disconnect() closes anything: `if (cached.conn)`.
MustClose(cache) == cache.conn # Null

\* disconnect(), up to its return (nothing cached) or `await mongoose.disconnect()`,
\* which starts closing every open connection.
disconnect(c) ==
    /\ loaded = "loaded"
    /\ pc[c] = "idle"
    /\ IF MustClose(cached)
       THEN /\ attempts' = [a \in Attempts |->
                              IF attempts[a] = "open" THEN "closing" ELSE attempts[a]]
            /\ readyState' = 3
            /\ pc' = [pc EXCEPT ![c] = "disconnecting"]
            /\ UNCHANGED lastRet
       ELSE /\ lastRet' = Ret("void", Null, FALSE, 0)
            /\ UNCHANGED <<attempts, readyState, pc>>
    /\ UNCHANGED <<eventVars, bookingVars>>
    /\ UNCHANGED <<MONGODB_URL, loaded, cached, started, waits, observed>>

\* What disconnect() leaves in the cache once mongoose.disconnect() has resolved.
AfterDisconnectKeepPromise(cache) == [cache EXCEPT !.conn = Null]
AfterDisconnect(cache) == [conn |-> Null, promise |-> Null]

\* The continuation of disconnect() after its await.
disconnectResume(c) ==
    /\ pc[c] = "disconnecting"
    /\ attempts' = [a \in Attempts |->
                      IF attempts[a] = "closing" THEN "closed" ELSE attempts[a]]
    /\ readyState' = 0
    /\ cached' = AfterDisconnect(cached)
    /\ pc' = [pc EXCEPT ![c] = "idle"]
    /\ lastRet' = Ret("void", Null, TRUE, 0)
    /\ UNCHANGED <<eventVars, bookingVars>>
    /\ UNCHANGED <<MONGODB_URL, loaded, started, waits, observed>>

\* The states table of getConnectionState and its `|| 'unknown'`.
StateNameSwapped(rs) ==
    CASE rs = 0 -> "disconnected"
      [] rs = 1 -> "connected"
      [] rs = 2 -> "disconnecting"
      [] rs = 3 -> "connecting"
      [] OTHER -> "unknown"
StateName(rs) ==
    CASE rs = 0 -> "disconnected"
      [] rs = 1 -> "connected"
      [] rs = 2 -> "connecting"
      [] rs = 3 -> "disconnecting"
      [] OTHER -> "unknown"

\* getConnectionState(): returns the name of the ready state it reads.
getConnectionState ==
    /\ loaded = "loaded"
    /\ lastRet' = [kind |-> "status", h |-> readyState, hstate |-> StateName(readyState),
                   awaited |-> FALSE, nth |-> 0]
    /\ UNCHANGED <<eventVars, bookingVars>>
    /\ UNCHANGED <<MONGODB_URL, loaded, cached, attempts, started, pc, waits,
                   observed, readyState>>

\* The transport takes a ready state outside the states table (the connection test
\* assigns 99); it leaves 0 only once a connection has been attempted. The states
\* 0..3 are those the operations put it in.
transportChange ==
    /\ loaded = "loaded"
    /\ started > 0
    /\ readyState # Uninitialized
    /\ readyState' = Uninitialized
    /\ UNCHANGED <<eventVars, bookingVars>>
    /\ UNCHANGED <<MONGODB_URL, loaded, cached, attempts, started, pc, waits,
                   lastRet, observed>>

ConnNext ==
    \/ LoadModule
    \/ \E c \in Callers : connectToDatabase(c)
    \/ \E a \in Attempts : connectResolved(a)
    \/ \E a \in Attempts : connectRejected(a)
    \/ \E c \in Callers : connectResume(c)
    \/ \E c \in Callers : disconnect(c)
    \/ \E c \in Callers : disconnectResume(c)
    \/ getConnectionState
    \/ transportChange

----------------------------------------------------------------------------
\* The Event pre-save hook: slug generation.

\* Strings are sequences of one-character strings over this alphabet: letters in
\* both cases, a digit, whitespace, the separators, a special character and a
\* non-ASCII letter.
Chars == {"a", "B", "3", " ", "_", "-", "!", "é"}

IsSpace(ch) == ch \in {" "}
IsLowerAscii(ch) == ch \in {"a", "b"}
IsDigit(ch) == ch \in {"3"}
\* \w: [A-Za-z0-9_]
IsWord(ch) == ch \in {"a", "b", "A", "B", "3", "_"}

\* String.prototype.toLowerCase
LowerChar(ch) == CASE ch = "A" -> "a" [] ch = "B" -> "b" [] ch = "É" -> "é" [] OTHER -> ch
ToLowerCase(s) == [i \in DOMAIN s |-> LowerChar(s[i])]

\* String.prototype.trim
RECURSIVE TrimStart(_)
TrimStart(s) == IF s # <<>> /\ IsSpace(Head(s)) THEN TrimStart(Tail(s)) ELSE s
RECURSIVE TrimEnd(_)
TrimEnd(s) ==
    IF s # <<>> /\ IsSpace(s[Len(s)]) THEN TrimEnd(SubSeq(s, 1, Len(s) - 1)) ELSE s
Trim(s) == TrimEnd(TrimStart(s))

\* .replace(/[^\w\s-]/g, '')
IsKept(ch) == IsWord(ch) \/ IsSpace(ch) \/ ch = "-"
RemoveSpecial(s) == SelectSeq(s, IsKept)

\* .replace(/[\s_-]+/g, '-')
IsSeparator(ch) == IsSpace(ch) \/ ch = "_" \/ ch = "-"
RECURSIVE SkipSeparators(_)
SkipSeparators(s) ==
    IF s # <<>> /\ IsSeparator(Head(s)) THEN SkipSeparators(Tail(s)) ELSE s
RECURSIVE CollapseSeparators(_)
CollapseSeparators(s) ==
    IF s = <<>> THEN <<>>
    ELSE IF IsSeparator(Head(s)) THEN <<"-">> \o CollapseSeparators(SkipSeparators(s))
    ELSE <<Head(s)>> \o CollapseSeparators(Tail(s))

\* .replace(/^-+|-+$/g, '')
RECURSIVE StripStart(_)
StripStart(s) == IF s # <<>> /\ Head(s) = "-" THEN StripStart(Tail(s)) ELSE s
RECURSIVE StripEnd(_)
StripEnd(s) ==
    IF s # <<>> /\ s[Len(s)] = "-" THEN StripEnd(SubSeq(s, 1, Len(s) - 1)) ELSE s
StripHyphensNot(s) == s
StripHyphens(s) == StripEnd(StripStart(s))

\* this.title.toLowerCase().trim().replace(...).replace(...).replace(...)
SlugifyStripFirst(t) == CollapseSeparators(StripHyphens(RemoveSpecial(Trim(ToLowerCase(t)))))
Slugify(t) == StripHyphens(CollapseSeparators(RemoveSpecial(Trim(ToLowerCase(t)))))

----------------------------------------------------------------------------
\* The Event pre-save hook: date normalisation.

\* A date string is held by its syntax: '' ("empty"), a text that is no date
\* ("text", as 'invalid-date'), 'YYYY-MM-DD' ("date"), 'YYYY-MM-DDTHH:mm:ss.sssZ'
\* ("utc") and 'YYYY-MM-DDTHH:mm:ss' ("local"). A calendar day is its number in a
\* run of consecutive days and a time of day its minute.
MinutesPerDay == 1440
DateStr(form, day, minute) == [form |-> form, day |-> day, minute |-> minute]
EmptyDate == DateStr("empty", 0, 0)

\* The time zones the process may run in (minutes east of UTC).
TzOffsets == {-300, 0, 120}

\* Date.prototype.getTime() of an invalid Date.
NaN == -1

\* new Date(this.date).getTime(), in minutes: a date-only form is UTC midnight, a
\* date-time form without offset is local time.
ParseDateAsLocal(d, zone) ==
    CASE d.form = "utc" -> d.day * MinutesPerDay + d.minute
      [] d.form \in {"date", "local"} -> d.day * MinutesPerDay + d.minute - zone
      [] OTHER -> NaN
ParseDate(d, zone) ==
    CASE d.form = "date" -> d.day * MinutesPerDay
      [] d.form = "utc" -> d.day * MinutesPerDay + d.minute
      [] d.form = "local" -> d.day * MinutesPerDay + d.minute - zone
      [] OTHER -> NaN

\* normalizedDate.toISOString().split('T')[0]
ToISODateLocal(ms, zone) == DateStr("date", (ms + zone) \div MinutesPerDay, 0)
ToISODate(ms, zone) == DateStr("date", ms \div MinutesPerDay, 0)

----------------------------------------------------------------------------
\* The Event pre-save hook: time normalisation.

\* A time string is a sequence of one-character strings.
DigitChars == <<"0", "1", "2", "3", "4", "5", "6", "7", "8", "9">>
IsTimeDigit(ch) == \E i \in DOMAIN DigitChars : DigitChars[i] = ch
DigitVal(ch) == (CHOOSE i \in DOMAIN DigitChars : DigitChars[i] = ch) - 1
TwoDigits(s, i) == 10 * DigitVal(s[i]) + DigitVal(s[i + 1])
AreDigits(s, is) == \A i \in is : IsTimeDigit(s[i])

\* /^([01]?[0-9]|2[0-3]):([0-5][0-9])$/.test(this.time)
TimeRegexTest(s) ==
    \/ /\ Len(s) = 4
       /\ AreDigits(s, {1, 3, 4}) /\ s[2] = ":"
       /\ DigitVal(s[3]) <= 5
    \/ /\ Len(s) = 5
       /\ AreDigits(s, {1, 2, 4, 5}) /\ s[3] = ":"
       /\ \/ DigitVal(s[1]) <= 1
          \/ DigitVal(s[1]) = 2 /\ DigitVal(s[2]) <= 3
       /\ DigitVal(s[4]) <= 5

\* new Date(`2000-01-01T${this.time}`).getTime(), as the minute of the local day
\* (1440 is midnight of the next day): the string parses when the time is HH:mm or
\* HH:mm:ss with hour 00..23, minute and second 00..59, or is 24:00 or 24:00:00.
ParseTimeOfDay(s) ==
    LET shaped == \/ Len(s) = 5 /\ AreDigits(s, {1, 2, 4, 5}) /\ s[3] = ":"
                  \/ /\ Len(s) = 8 /\ AreDigits(s, {1, 2, 4, 5, 7, 8})
                     /\ s[3] = ":" /\ s[6] = ":"
        hh == TwoDigits(s, 1)
        mm == TwoDigits(s, 4)
        ss == IF Len(s) = 8 THEN TwoDigits(s, 7) ELSE 0
    IN  IF ~ shaped THEN NaN
        ELSE IF hh <= 23 /\ mm <= 59 /\ ss <= 59 THEN 60 * hh + mm
        ELSE IF hh = 24 /\ mm = 0 /\ ss = 0 THEN MinutesPerDay
        ELSE NaN

\* timeObj.toTimeString().slice(0, 5)
ToTimeString(m) ==
    LET hh == (m % MinutesPerDay) \div 60
        mm == m % 60
    IN  <<DigitChars[(hh \div 10) + 1], DigitChars[(hh % 10) + 1], ":",
          DigitChars[(mm \div 10) + 1], DigitChars[(mm % 10) + 1]>>

\* The test the hook makes of this.time before it tries to parse it.
NeedsParse(s) == ~ TimeRegexTest(s)

RECURSIVE SeqsUpTo(_)
SeqsUpTo(n) ==
    IF n = 0 THEN {<<>>}
    ELSE LET shorter == SeqsUpTo(n - 1) IN
         shorter \cup {Append(s, ch) : s \in {x \in shorter : Len(x) = n - 1}, ch \in Chars}

\* The titles given to `new Event({ title })`.
Titles == SeqsUpTo(MaxTitleLen)

\* title: { trim: true }: the setter trims on assignment.
TitleSetter(t) == Trim(t)

----------------------------------------------------------------------------
\* The Event documents and the events collection.

EventIds == 1..MaxEvents

Doc(t, sl, d, tm, ag, tg) ==
    [exists |-> TRUE, title |-> t, slug |-> sl, date |-> d, time |-> tm,
     agenda |-> ag, tags |-> tg]

\* No document is stored under an _id.
NoDoc ==
    [exists |-> FALSE, title |-> <<>>, slug |-> <<>>, date |-> EmptyDate, time |-> <<>>,
     agenda |-> <<>>, tags |-> <<>>]

\* The values of the fields the model does not vary, as in the tests' validEventData.
ValidDate == DateStr("date", 2, 0)
ValidTime == <<"0", "9", ":", "0", "0">>
OneItem == <<"Item 1">>

\* What the caller gave for title, date and time.
Given(t, d, tm) == [title |-> t, date |-> d, time |-> tm]

\* The _id a new document gets: one that no stored document has.
FreshId == CHOOSE i \in EventIds : ~ events[i].exists /\ \A j \in 1..(i - 1) : events[j].exists

\* new Event({ title, date, time, agenda, tags }): the setters run on assignment.
newEvent(t, d, tm, ag, tg) ==
    /\ \E i \in EventIds : ~ events[i].exists
    /\ docId' = FreshId
    /\ title' = TitleSetter(t)
    /\ slug' = <<>>
    /\ date' = d
    /\ time' = tm
    /\ agenda' = ag
    /\ tags' = tg
    /\ isNew' = TRUE
    /\ modified' = {}
    /\ saved' = "new"
    /\ given' = Given(t, d, tm)
    /\ UNCHANGED <<events, tz>>
    /\ UNCHANGED <<connVars, bookingVars>>

\* Event.findById(i): the stored document, as a candidate in memory.
loadEvent(i) ==
    /\ events[i].exists
    /\ docId' = i
    /\ title' = events[i].title
    /\ slug' = events[i].slug
    /\ date' = events[i].date
    /\ time' = events[i].time
    /\ agenda' = events[i].agenda
    /\ tags' = events[i].tags
    /\ isNew' = FALSE
    /\ modified' = {}
    /\ saved' = "new"
    /\ given' = Given(events[i].title, events[i].date, events[i].time)
    /\ UNCHANGED <<events, tz>>
    /\ UNCHANGED <<connVars, bookingVars>>

\* An assignment to a path marks it modified when it changes the value.
Mark(path, old, new) == IF new = old THEN modified ELSE modified \cup {path}

\* event.title = t
setTitle(t) ==
    /\ title' = TitleSetter(t)
    /\ modified' = Mark("title", title, title')
    /\ given' = [given EXCEPT !.title = t]
    /\ UNCHANGED <<slug, saved, date, time, agenda, tags, docId, isNew, events, tz>>
    /\ UNCHANGED <<connVars, bookingVars>>

\* slug: { lowercase: true }: the setter lowercases on assignment.
SlugSetter(sl) == ToLowerCase(sl)

\* event.slug = sl
setSlug(sl) ==
    /\ slug' = SlugSetter(sl)
    /\ modified' = Mark("slug", slug, slug')
    /\ UNCHANGED <<title, saved, date, time, agenda, tags, docId, isNew, events, tz, given>>
    /\ UNCHANGED <<connVars, bookingVars>>

\* event.date = d
setDate(d) ==
    /\ date' = d
    /\ modified' = Mark("date", date, d)
    /\ given' = [given EXCEPT !.date = d]
    /\ UNCHANGED <<title, slug, saved, time, agenda, tags, docId, isNew, events, tz>>
    /\ UNCHANGED <<connVars, bookingVars>>

\* event.time = tm
setTime(tm) ==
    /\ time' = tm
    /\ modified' = Mark("time", time, tm)
    /\ given' = [given EXCEPT !.time = tm]
    /\ UNCHANGED <<title, slug, saved, date, agenda, tags, docId, isNew, events, tz>>
    /\ UNCHANGED <<connVars, bookingVars>>

\* event.agenda = ag
setAgenda(ag) ==
    /\ agenda' = ag
    /\ modified' = Mark("agenda", agenda, ag)
    /\ UNCHANGED <<title, slug, saved, date, time, tags, docId, isNew, events, tz, given>>
    /\ UNCHANGED <<connVars, bookingVars>>

\* event.tags = tg
setTags(tg) ==
    /\ tags' = tg
    /\ modified' = Mark("tags", tags, tg)
    /\ UNCHANGED <<title, slug, saved, date, time, agenda, docId, isNew, events, tz, given>>
    /\ UNCHANGED <<connVars, bookingVars>>

----------------------------------------------------------------------------
\* event.save(): the schema's validators, the pre-save hook, the write.

NoError == "none"

\* The validators the schema declares, which save() runs before the pre('save')
\* hooks: `required` on title, date and time (an empty string fails it) and the
\* validators of agenda and tags. The error names every failing path; the model
\* keeps the message of the first one in the schema's order.
ValidationError ==
    IF title = <<>> THEN "Title is required"
    ELSE IF date = EmptyDate THEN "Date is required"
    ELSE IF time = <<>> THEN "Time is required"
    ELSE IF agenda = <<>> THEN "Agenda must contain at least one item"
    ELSE IF tags = <<>> THEN "At least one tag is required"
    ELSE NoError

\* if (this.isNew || this.isModified(path))
Runs(path) == isNew \/ path \in modified

\* The slug step of the hook.
HookSlug == IF Runs("title") THEN Slugify(title) ELSE slug

\* The date step of the hook: the value it leaves in this.date, and whether it
\* ends the hook with an error.
HookDateFails == Runs("date") /\ ParseDate(date, tz) = NaN
HookDate ==
    IF Runs("date") /\ ParseDate(date, tz) # NaN
    THEN ToISODate(ParseDate(date, tz), tz)
    ELSE date

\* The time step of the hook.
HookTimeFailsNever == FALSE
HookTimeFails == Runs("time") /\ NeedsParse(time) /\ ParseTimeOfDay(time) = NaN
HookTimeAsUtc ==
    IF ParseTimeOfDay(time) # NaN
    THEN ToTimeString(ParseTimeOfDay(time) + MinutesPerDay + tz)
    ELSE time
HookTime ==
    IF Runs("time") /\ NeedsParse(time) /\ ParseTimeOfDay(time) # NaN
    THEN ToTimeString(ParseTimeOfDay(time))
    ELSE time

\* The error the hook passes to next(), if any, in the order of its steps.
DateFormatError == "Date must be in a valid format (YYYY-MM-DD or ISO string)"
TimeFormatError == "Time must be in HH:MM format"
HookError ==
    IF HookDateFails THEN DateFormatError
    ELSE IF HookTimeFails THEN TimeFormatError
    ELSE IF agenda = <<>> THEN "Agenda cannot be empty"
    ELSE IF tags = <<>> THEN "Tags cannot be empty"
    ELSE NoError

\* slug: { unique: true }: the write is rejected when another stored document has
\* the slug.
DuplicateKeyError == "E11000 duplicate key error"
DuplicateSlugNever(sl) == FALSE
DuplicateSlug(sl) ==
    \E i \in EventIds \ {docId} : events[i].exists /\ events[i].slug = sl

\* The document is written only when no step passed an error.
WritesAlways(err) == TRUE
Writes(err) == err = NoError

\* event.save()
saveEvent ==
    LET invalid == ValidationError
        hookErr == HookError
        newSlug == HookSlug
        newDate == HookDate
        newTime == IF HookDateFails THEN time ELSE HookTime
        err == IF invalid # NoError THEN invalid
               ELSE IF hookErr # NoError THEN hookErr
               ELSE IF DuplicateSlug(newSlug) THEN DuplicateKeyError
               ELSE NoError
    IN
    /\ docId \in EventIds
    /\ IF invalid # NoError
       THEN UNCHANGED <<slug, date, time, modified>>
       ELSE /\ slug' = newSlug
            /\ date' = newDate
            /\ time' = newTime
            /\ modified' = IF err = NoError THEN {}
                           ELSE Mark("slug", slug, newSlug) \cup Mark("date", date, newDate)
                                \cup Mark("time", time, newTime)
    /\ IF Writes(err)
       THEN /\ events' = [events EXCEPT
                            ![docId] = IF invalid # NoError
                                       THEN Doc(title, slug, date, time, agenda, tags)
                                       ELSE Doc(title, newSlug, newDate, newTime, agenda, tags)]
            /\ isNew' = FALSE
       ELSE UNCHANGED <<events, isNew>>
    /\ saved' = IF err = NoError THEN "saved" ELSE err
    /\ given' = IF err = NoError THEN Given(title, newDate, newTime) ELSE given
    /\ UNCHANGED <<title, agenda, tags, docId, tz>>
    /\ UNCHANGED <<connVars, bookingVars>>

----------------------------------------------------------------------------
\* The Booking documents and the bookings collection.

BookingIds == 1..MaxBookings

\* An ObjectId under which no Event is ever stored (new mongoose.Types.ObjectId()).
NoSuchEvent == MaxEvents + 1

BookingDoc(e, em) == [exists |-> TRUE, eventId |-> e, email |-> em]
NoBooking == [exists |-> FALSE, eventId |-> Null, email |-> <<>>]

\* The outcome of a save: "new" (none yet), "saving", "saved", or an error message
\* with the identity or the underlying message it quotes.
Outcome(msg, id, detail) == [msg |-> msg, id |-> id, detail |-> detail]
NotSaved == Outcome("new", Null, "")
Saving == Outcome("saving", Null, "")
SavedOk == Outcome("saved", Null, "")

\* email: { lowercase: true, trim: true }: the setters run on assignment.
EmailSetterTrimOnly(em) == Trim(em)
EmailSetter(em) == Trim(ToLowerCase(em))

\* emailRegex = /^[^\s@]+@[^\s@]+\.[^\s@]+$/
EmailRegexTest(em) ==
    LET ats == {i \in DOMAIN em : em[i] = "@"} IN
    /\ \A i \in DOMAIN em : ~ IsSpace(em[i])
    /\ Cardinality(ats) = 1
    /\ \A k \in ats :
          /\ k > 1
          /\ \E j \in (k + 2)..(Len(em) - 1) : em[j] = "."

\* maxlength: [254, ...]
MaxEmailLength == 254

\* The validators the schema declares, which save() runs before the pre('save')
\* hook; the message of the first failing one, in the schema's order.
BookingValidationErrorOffByOne ==
    IF bEventId = Null THEN "Event ID is required"
    ELSE IF bEmail = <<>> THEN "Email is required"
    ELSE IF ~ EmailRegexTest(bEmail) THEN "Please provide a valid email address"
    ELSE IF Len(bEmail) >= MaxEmailLength THEN "Email cannot exceed 254 characters"
    ELSE NoError
BookingValidationError ==
    IF bEventId = Null THEN "Event ID is required"
    ELSE IF bEmail = <<>> THEN "Email is required"
    ELSE IF ~ EmailRegexTest(bEmail) THEN "Please provide a valid email address"
    ELSE IF Len(bEmail) > MaxEmailLength THEN "Email cannot exceed 254 characters"
    ELSE NoError

\* The _id a new Booking gets: one that no stored Booking has.
FreshBookingId ==
    CHOOSE i \in BookingIds :
        ~ bookings[i].exists /\ \A j \in 1..(i - 1) : bookings[j].exists

\* new Booking({ eventId, email })
newBooking(e, em) ==
    /\ bpc = "idle"
    /\ \E i \in BookingIds : ~ bookings[i].exists
    /\ bId' = FreshBookingId
    /\ bEventId' = e
    /\ bEmail' = EmailSetter(em)
    /\ bIsNew' = TRUE
    /\ bModified' = {}
    /\ bSaved' = NotSaved
    /\ reads' = 0
    /\ UNCHANGED <<bpc, bookings>>
    /\ UNCHANGED <<connVars, eventVars>>

\* booking.email = em
setEmail(em) ==
    /\ bpc = "idle"
    /\ bId # Null
    /\ bEmail' = EmailSetter(em)
    /\ bModified' = IF bEmail' = bEmail THEN bModified ELSE bModified \cup {"email"}
    /\ UNCHANGED <<bEventId, bId, bIsNew, bSaved, bpc, reads, bookings>>
    /\ UNCHANGED <<connVars, eventVars>>

\* booking.eventId = e
setEventId(e) ==
    /\ bpc = "idle"
    /\ bId # Null
    /\ bEventId' = e
    /\ bModified' = IF e = bEventId THEN bModified ELSE bModified \cup {"eventId"}
    /\ UNCHANGED <<bEmail, bId, bIsNew, bSaved, bpc, reads, bookings>>
    /\ UNCHANGED <<connVars, eventVars>>

\* if (this.isNew || this.isModified('eventId'))
ChecksReferenceAlways == TRUE
ChecksReference == bIsNew \/ "eventId" \in bModified

\* booking.save(), up to its first suspension: the validators, then the hook up to
\* `await Event.exists({ _id: this.eventId })`, or through next() when it makes no
\* check.
saveBooking ==
    /\ bpc = "idle"
    /\ bId # Null
    /\ IF BookingValidationError # NoError
       THEN /\ bSaved' = Outcome(BookingValidationError, Null, "")
            /\ reads' = 0
            /\ UNCHANGED bpc
       ELSE /\ bSaved' = Saving
            /\ reads' = IF ChecksReference THEN 1 ELSE 0
            /\ bpc' = IF ChecksReference THEN "exists" ELSE "write"
    /\ UNCHANGED <<bEventId, bEmail, bId, bIsNew, bModified, bookings>>
    /\ UNCHANGED <<connVars, eventVars>>

\* Event.exists({ _id: e }), evaluated when the read reaches storage.
ExistsResultAlways(e) == TRUE
ExistsResult(e) == e \in EventIds /\ events[e].exists

NotExistError(e) == Outcome("Event with ID ${this.eventId} does not exist", e, "")

\* The continuation of the hook after `await Event.exists(...)` resolved: next()
\* with the error naming the identity when no Event was found, plain next()
\* otherwise.
existsReturns ==
    /\ bpc = "exists"
    /\ IF ExistsResult(bEventId)
       THEN /\ bpc' = "write"
            /\ UNCHANGED bSaved
       ELSE /\ bpc' = "idle"
            /\ bSaved' = NotExistError(bEventId)
    /\ UNCHANGED <<bEventId, bEmail, bId, bIsNew, bModified, reads, bookings>>
    /\ UNCHANGED <<connVars, eventVars>>

\* What the lookup may reject with: an Error with a message, or another value.
LookupFailures == {[isError |-> TRUE, message |-> "connection lost"],
                   [isError |-> FALSE, message |-> ""]}

\* The catch block of the hook.
WrapLookupErrorGeneric(f) == Outcome("Failed to validate event reference", Null, "")
WrapLookupError(f) ==
    IF f.isError
    THEN Outcome("Failed to validate event reference: ${error.message}", Null, f.message)
    ELSE Outcome("Failed to validate event reference", Null, "")

\* The continuation of the hook after the lookup rejected.
existsThrows(f) ==
    /\ bpc = "exists"
    /\ bpc' = "idle"
    /\ bSaved' = WrapLookupError(f)
    /\ UNCHANGED <<bEventId, bEmail, bId, bIsNew, bModified, reads, bookings>>
    /\ UNCHANGED <<connVars, eventVars>>

\* BookingSchema.index({ eventId: 1, email: 1 }, { unique: true }): the write is
\* rejected when another stored Booking has both values.
DuplicateBookingByEmail(e, em) ==
    \E i \in BookingIds \ {bId} : bookings[i].exists /\ bookings[i].email = em
DuplicateBooking(e, em) ==
    \E i \in BookingIds \ {bId} :
        bookings[i].exists /\ bookings[i].eventId = e /\ bookings[i].email = em

\* The write of the Booking, once the hook has called next().
writeBooking ==
    /\ bpc = "write"
    /\ bpc' = "idle"
    /\ IF DuplicateBooking(bEventId, bEmail)
       THEN /\ bSaved' = Outcome(DuplicateKeyError, Null, "")
            /\ UNCHANGED <<bIsNew, bModified, bookings>>
       ELSE /\ bSaved' = SavedOk
            /\ bookings' = [bookings EXCEPT ![bId] = BookingDoc(bEventId, bEmail)]
            /\ bIsNew' = FALSE
            /\ bModified' = {}
    /\ UNCHANGED <<bEventId, bEmail, bId, reads>>
    /\ UNCHANGED <<connVars, eventVars>>

\* Booking.findById(i): the stored document, as the candidate in memory.
loadBooking(i) ==
    /\ bpc = "idle"
    /\ bookings[i].exists
    /\ bId' = i
    /\ bEventId' = bookings[i].eventId
    /\ bEmail' = bookings[i].email
    /\ bIsNew' = FALSE
    /\ bModified' = {}
    /\ bSaved' = NotSaved
    /\ reads' = 0
    /\ UNCHANGED <<bpc, bookings>>
    /\ UNCHANGED <<connVars, eventVars>>

\* Event.deleteOne({ _id: i }): a stored Event is deleted by another operation; no
\* Booking is touched.
deleteEvent(i) ==
    /\ events[i].exists
    /\ events' = [events EXCEPT ![i] = NoDoc]
    /\ UNCHANGED <<title, slug, saved, date, time, agenda, tags, docId, isNew, modified, tz,
                   given>>
    /\ UNCHANGED <<connVars, bookingVars>>

\* The write of another Booking document, whose save (made by another request)
\* passed its validators and its hook: it reaches storage at any moment, under
\* the same unique index.
concurrentWrite(e, em) ==
    LET free == {i \in BookingIds \ {bId} : ~ bookings[i].exists} IN
    /\ free # {}
    /\ ~ \E j \in BookingIds :
            bookings[j].exists /\ bookings[j].eventId = e /\ bookings[j].email = EmailSetter(em)
    /\ bookings' = [bookings EXCEPT
                      ![CHOOSE i \in free : \A j \in free : i <= j] = BookingDoc(e, EmailSetter(em))]
    /\ UNCHANGED <<bEventId, bEmail, bId, bIsNew, bModified, bSaved, bpc, reads>>
    /\ UNCHANGED <<connVars, eventVars>>

----------------------------------------------------------------------------
\* The specifications.

\* No Event was constructed or stored.
NoEvents == [i \in EventIds |-> NoDoc]
NoCandidate ==
    /\ docId = Null
    /\ title = <<>> /\ slug = <<>> /\ date = EmptyDate /\ time = <<>>
    /\ agenda = <<>> /\ tags = <<>>
    /\ isNew = FALSE /\ modified = {} /\ saved = "new"
    /\ given = Given(<<>>, EmptyDate, <<>>)

\* A candidate built by `new Event(...)` on the empty collection, not yet saved.
InitEvent(t, d, tm, ag, tg) ==
    /\ docId = 1
    /\ title = TitleSetter(t) /\ slug = <<>> /\ date = d /\ time = tm
    /\ agenda = ag /\ tags = tg
    /\ isNew = TRUE /\ modified = {} /\ saved = "new"
    /\ given = Given(t, d, tm)

\* The connection module is not loaded.
ConnAtRest ==
    /\ MONGODB_URL = Undefined
    /\ loaded = "unloaded"
    /\ cached = EmptyCache
    /\ attempts = [a \in Attempts |-> "none"]
    /\ started = 0
    /\ pc = [c \in Callers |-> "idle"]
    /\ waits = [c \in Callers |-> Null]
    /\ lastRet = NoRet
    /\ observed = [a \in Attempts |-> {}]
    /\ readyState = 0

\* No Booking was constructed or stored.
NoBookings == [i \in BookingIds |-> NoBooking]
NoBookingCandidate ==
    /\ bId = Null /\ bEventId = Null /\ bEmail = <<>>
    /\ bIsNew = FALSE /\ bModified = {} /\ bSaved = NotSaved
    /\ bpc = "idle" /\ reads = 0
BookingsAtRest == NoBookingCandidate /\ bookings = NoBookings

\* The connection cache alone.
ConnInit == InitCache /\ NoCandidate /\ events = NoEvents /\ tz = 0 /\ BookingsAtRest
ConnSpec == ConnInit /\ [][ConnNext]_vars

\* The connection cache under the scheduling the runtime gives: every started
\* mongoose.connect settles (it resolves, or rejects at the latest when server
\* selection times out), and the continuation of an await runs once the awaited
\* promise has settled.
ConnFairness ==
    /\ \A a \in Attempts : WF_vars(connectResolved(a) \/ connectRejected(a))
    /\ \A c \in Callers : WF_vars(connectResume(c))
\* The module was loaded with a connection string; callers acquire and release.
ConnFairInit ==
    /\ MONGODB_URL = "mongodb://localhost:27017/db"
    /\ loaded = "loaded"
    /\ cached = EmptyCache
    /\ attempts = [a \in Attempts |-> "none"]
    /\ started = 0
    /\ pc = [c \in Callers |-> "idle"]
    /\ waits = [c \in Callers |-> Null]
    /\ lastRet = NoRet
    /\ observed = [a \in Attempts |-> {}]
    /\ readyState = 0
    /\ NoCandidate /\ events = NoEvents /\ tz = 0 /\ BookingsAtRest
ConnFairNext ==
    \/ \E c \in Callers : connectToDatabase(c)
    \/ \E a \in Attempts : connectResolved(a)
    \/ \E a \in Attempts : connectRejected(a)
    \/ \E c \in Callers : connectResume(c)
    \/ \E c \in Callers : disconnect(c)
    \/ \E c \in Callers : disconnectResume(c)
ConnFairSpec == ConnFairInit /\ [][ConnFairNext]_vars /\ ConnFairness

\* One save of a new Event, for every title.
EventInit ==
    /\ \E t \in Titles : InitEvent(t, ValidDate, ValidTime, OneItem, OneItem)
    /\ events = NoEvents
    /\ tz = 0
    /\ ConnAtRest
    /\ BookingsAtRest
EventNext == saveEvent
EventSpec == EventInit /\ [][EventNext]_vars

\* The dates, times, agendas and tags given to one Event, new and then changed.
Dates ==
    {EmptyDate, DateStr("text", 0, 0), DateStr("date", 2, 0), DateStr("utc", 2, 630),
     DateStr("local", 2, 1410), DateStr("local", 2, 30)}
Times ==
    {<<>>, <<"1", "4", ":", "3", "0">>, <<"9", ":", "3", "0">>, <<"0", "0", ":", "0", "0">>,
     <<"2", "3", ":", "5", "9">>, <<"2", "5", ":", "0", "0">>, <<"2", "4", ":", "0", "0">>,
     <<"1", "2", ":", "6", "0">>, <<"0", "9", ":", "3", "0", ":", "1", "5">>,
     <<"i", "n", "v", "a", "l", "i", "d">>}
Lists == {<<>>, OneItem}

FieldInit ==
    /\ \E d \in Dates, tm \in Times, ag \in Lists, tg \in Lists :
          InitEvent(<<"a">>, d, tm, ag, tg)
    /\ events = NoEvents
    /\ tz \in TzOffsets
    /\ ConnAtRest
    /\ BookingsAtRest
FieldNext ==
    \/ saveEvent
    \/ \E d \in Dates : setDate(d)
    \/ \E tm \in Times : setTime(tm)
    \/ \E ag \in Lists : setAgenda(ag)
    \/ \E tg \in Lists : setTags(tg)
FieldSpec == FieldInit /\ [][FieldNext]_vars

\* Several Events, created, loaded, changed and saved again.
StoreTitles == {<<"a", " ", "B">>, <<"a", "_", "b">>, <<"!">>, <<"é">>}
StoreSlugs == {<<"B">>, <<"a", "-", "b">>}

StoreInit ==
    /\ NoCandidate
    /\ events = NoEvents
    /\ tz \in TzOffsets
    /\ ConnAtRest
    /\ BookingsAtRest
StoreNext ==
    \/ \E t \in StoreTitles : newEvent(t, ValidDate, ValidTime, OneItem, OneItem)
    \/ \E i \in EventIds : loadEvent(i)
    \/ \E t \in StoreTitles : setTitle(t)
    \/ \E sl \in StoreSlugs : setSlug(sl)
    \/ saveEvent
StoreSpec == StoreInit /\ [][StoreNext]_vars

\* Bookings of stored Events: every Event of the collection was saved with a valid
\* title of its own; Events are deleted and Bookings created, loaded, changed and
\* saved, the Booking save interleaved with the rest at its suspension points.
TitleOfEvent(i) == [j \in 1..i |-> "a"]
StoredEvent(i) == Doc(TitleOfEvent(i), Slugify(TitleOfEvent(i)), ValidDate, ValidTime,
                      OneItem, OneItem)
BookingEmails == {<<"a", "@", "b", ".", "a">>, <<"B", "@", "b", ".", "a">>, <<"a", "@", "b">>}
\* The identities given to Booking.eventId: two stored Events and an identity no
\* Event has.
BookingRefs == {1, 2, NoSuchEvent}

BookingInit ==
    /\ NoCandidate
    /\ events = [i \in EventIds |-> StoredEvent(i)]
    /\ tz = 0
    /\ BookingsAtRest
    /\ ConnAtRest
BookingNext ==
    \/ \E i \in BookingRefs \cap EventIds : deleteEvent(i)
    \/ \E e \in BookingRefs, em \in BookingEmails : newBooking(e, em)
    \/ \E i \in BookingIds : loadBooking(i)
    \/ \E em \in BookingEmails : setEmail(em)
    \/ \E e \in BookingRefs : setEventId(e)
    \/ saveBooking
    \/ existsReturns
    \/ \E f \in LookupFailures : existsThrows(f)
    \/ writeBooking
BookingSpec == BookingInit /\ [][BookingNext]_vars

\* Saves that fail, of Events and of Bookings: one input for every kind of failure.
EventInputs ==
    {<<t, ValidDate, ValidTime, OneItem, OneItem>> : t \in {<<>>, <<"a">>, <<"A">>}}
    \cup {<<<<"3">>, d, tm, OneItem, OneItem>> :
             d \in {ValidDate, DateStr("text", 0, 0)},
             tm \in {<<"9", ":", "3", "0">>, <<"2", "5", ":", "0", "0">>}}
    \cup {<<<<"3">>, DateStr("utc", 2, 630), ValidTime, ag, tg>> : ag \in Lists, tg \in Lists}
SaveTimes == {ValidTime, <<"2", "5", ":", "0", "0">>}
SaveEmails == {<<"a", "@", "b", ".", "a">>, <<"a", "@", "b">>}
SaveRefs == {1, NoSuchEvent}

SaveInit ==
    /\ NoCandidate
    /\ events = NoEvents
    /\ tz = 0
    /\ BookingsAtRest
    /\ ConnAtRest
SaveNext ==
    \/ \E in \in EventInputs : newEvent(in[1], in[2], in[3], in[4], in[5])
    \/ \E tm \in SaveTimes : setTime(tm)
    \/ saveEvent
    \/ \E e \in SaveRefs, em \in SaveEmails : newBooking(e, em)
    \/ \E e \in SaveRefs : setEventId(e)
    \/ saveBooking
    \/ existsReturns
    \/ \E f \in LookupFailures : existsThrows(f)
    \/ writeBooking
SaveSpec == SaveInit /\ [][SaveNext]_vars

\* Bookings under the unique index: the Events stay stored; Bookings are created,
\* loaded, changed and saved with emails that differ in letter case and in
\* surrounding whitespace, while other saves write Bookings of their own.
IndexEmails ==
    {<<"a", "@", "b", ".", "a">>, <<"A", "@", "b", ".", "a">>,
     <<" ", "a", "@", "b", ".", "a", " ">>, <<"B", "@", "b", ".", "a">>,
     <<" ", "b", "@", "b", ".", "a">>}
IndexRefs == {1, 2}

IndexInit ==
    /\ NoCandidate
    /\ events = [i \in EventIds |-> StoredEvent(i)]
    /\ tz = 0
    /\ BookingsAtRest
    /\ ConnAtRest
IndexNext ==
    \/ \E e \in IndexRefs, em \in IndexEmails : newBooking(e, em)
    \/ \E i \in BookingIds : loadBooking(i)
    \/ \E em \in IndexEmails : setEmail(em)
    \/ \E e \in IndexRefs : setEventId(e)
    \/ saveBooking
    \/ existsReturns
    \/ writeBooking
    \/ \E e \in IndexRefs, em \in IndexEmails : concurrentWrite(e, em)
IndexSpec == IndexInit /\ [][IndexNext]_vars

\* The emails given to one Booking of a stored Event: the shapes the schema's
\* pattern is meant to reject (as in the test's invalidEmails), valid ones, and
\* emails at and above the maximum length, with and without a valid shape.
EmailOfLength(n) == [i \in 1..(n - 4) |-> "a"] \o <<"@", "b", ".", "a">>
EmailShapes ==
    {<<"a", "b", ".", "a">>, <<"@", "b", ".", "a">>, <<"a", "@">>,
     <<"a", " ", "@", "b", ".", "a">>, <<"a", "@", ".", "a">>, <<"a", "@", "b">>,
     <<"a", ".", ".", "a", "@", "b", ".", "a">>, <<"a", "@", ".", ".", "a">>,
     <<"a", "@", "b", ".", "a">>, <<" ", "A", "@", "b", ".", "a">>}
LongEmails ==
    {EmailOfLength(MaxEmailLength), EmailOfLength(MaxEmailLength + 1),
     <<" ">> \o [i \in 1..(MaxEmailLength - 4) |-> "A"] \o <<"@", "b", ".", "a", " ">>,
     [i \in 1..(MaxEmailLength + 1) |-> "a"]}
EmailInputs == EmailShapes \cup LongEmails

EmailInit ==
    /\ NoCandidate
    /\ events = [i \in EventIds |-> StoredEvent(i)]
    /\ tz = 0
    /\ BookingsAtRest
    /\ ConnAtRest
EmailNext ==
    \/ \E em \in EmailInputs : newBooking(1, em)
    \/ \E em \in EmailInputs : setEmail(em)
    \/ saveBooking
    \/ existsReturns
    \/ writeBooking
EmailSpec == EmailInit /\ [][EmailNext]_vars

\* One Event, for every title, saved and then given its own slug as its title and
\* saved again.
SlugInit ==
    /\ \E t \in Titles : InitEvent(t, ValidDate, ValidTime, OneItem, OneItem)
    /\ events = NoEvents
    /\ tz = 0
    /\ ConnAtRest
    /\ BookingsAtRest
SlugNext ==
    \/ saveEvent
    \/ ~ isNew /\ setTitle(slug)
SlugSpec == SlugInit /\ [][SlugNext]_vars

----------------------------------------------------------------------------
\* The claims about the connection cache (checked under ConnSpec).

InFlight == {a \in Attempts : attempts[a] = "pending"}
Awaiting(a) == {c \in Callers : pc[c] = "awaiting" /\ waits[c] = a}

\* C1: while the first connection attempt is unresolved (and so no handle is
\* cached), it is the only attempt that was started: it is stored as pending and
\* every suspended acquire() awaits it.
C1_SingleAttemptBeforeFirstResolves ==
    attempts[1] = "pending" =>
        /\ started = 1
        /\ cached = [conn |-> Null, promise |-> 1]
        /\ \A c \in Callers : pc[c] = "awaiting" => waits[c] = 1

\* Every caller is suspended on the first attempt, which is still unresolved.
C1_Witness ==
    /\ attempts[1] = "pending"
    /\ Awaiting(1) = Callers
    /\ NCallers >= 2

\* C2: all callers that awaited one attempt received the same outcome, which is
\* that attempt's: its handle when it succeeded, the failure when it failed.
C2_SameOutcomeForAllWaiters ==
    \A a \in Attempts :
        /\ Cardinality(observed[a]) <= 1
        /\ \A x \in observed[a] :
              IF Succeeded(a) THEN x = <<"handle", a>>
              ELSE attempts[a] = "failed" /\ x = <<"error", Null>>

\* A second waiter of one attempt has just received its outcome.
C2_Witness ==
    lastRet.awaited /\ lastRet.nth = 2

\* C3: a handle returned by acquire() is open at the moment it is returned:
\* neither closed nor being closed by a release() in progress.
C3_ReturnedHandleIsLive ==
    lastRet.kind = "handle" => lastRet.hstate = "open"

\* C4: at most one unresolved connection attempt is in flight, and at most one
\* connection is live.
C4_AtMostOneAttemptAndHandle ==
    /\ Cardinality(InFlight) <= 1
    /\ Cardinality({a \in Attempts : attempts[a] = "open"}) <= 1

\* C5: when an attempt fails, its .catch handler clears pending; each waiter's
\* acquire() ends with the failure and leaves handle and pending absent; neither
\* step starts an attempt; and an acquire() called on the empty cache starts a
\* fresh attempt and stores it as pending.
C5_FailureClearsPropagatesAndAllowsRetry ==
    [][ /\ \A a \in Attempts :
              (attempts[a] = "pending" /\ attempts'[a] = "failed") =>
                  (cached'.promise = Null /\ started' = started)
        /\ \A c \in Callers :
              (pc[c] = "awaiting" /\ attempts[waits[c]] = "failed" /\ pc'[c] = "idle") =>
                  /\ lastRet'.kind = "error"
                  /\ cached' = [conn |-> Null, promise |-> Null]
                  /\ started' = started
                  /\ attempts' = attempts
        /\ \A c \in Callers :
              (/\ started > 0
               /\ attempts[started] = "failed"
               /\ cached = [conn |-> Null, promise |-> Null]
               /\ pc[c] = "idle" /\ pc'[c] = "awaiting") =>
                  /\ started' = started + 1
                  /\ attempts'[started'] = "pending"
                  /\ cached'.promise = started'
                  /\ waits'[c] = started'
      ]_vars

\* After a failed attempt whose failure reached a caller, a retry is in flight.
C5_Witness ==
    /\ started = 2
    /\ attempts[1] = "failed"
    /\ observed[1] = {<<"error", Null>>}
    /\ attempts[2] = "pending"
    /\ cached.promise = 2

\* C6: a release() that finds a handle cached puts the connection to closing and,
\* when it completes, the connection is closed and handle and pending are absent;
\* a release() that finds no handle cached, also while an attempt is pending,
\* closes nothing and leaves the cache as it is.
C6_ReleaseClosesAndClears ==
    [][ \A c \in Callers :
          /\ (pc[c] = "idle" /\ pc'[c] = "disconnecting") =>
                 /\ cached.conn # Null
                 /\ attempts'[cached.conn] \in {"closing", "closed"}
          /\ (pc[c] = "disconnecting" /\ pc'[c] = "idle") =>
                 /\ cached' = [conn |-> Null, promise |-> Null]
                 /\ \A a \in Attempts : attempts'[a] # "closing"
                 /\ \A a \in Attempts : attempts[a] = "closing" => attempts'[a] = "closed"
          /\ (cached.conn = Null /\ disconnect(c)) =>
                 /\ cached' = cached
                 /\ attempts' = attempts
                 /\ pc' = pc
                 /\ lastRet'.kind = "void"
      ]_vars

\* A release() has completed on a cache that held a handle and a resolved promise.
C6_Witness ==
    /\ lastRet.kind = "void" /\ lastRet.awaited
    /\ cached = [conn |-> Null, promise |-> Null]
    /\ \E a \in Attempts : attempts[a] = "closed"
    /\ \A c \in Callers : pc[c] = "idle"

C8_MissingUrlIsFatalAtStartup ==
    /\ loaded # "unloaded" => (loaded = "failed" <=> MONGODB_URL \in {Undefined, ""})
    /\ loaded # "loaded" =>
          /\ started = 0
          /\ InFlight = {}
          /\ \A c \in Callers : pc[c] = "idle"
          /\ lastRet.kind = "none"
          /\ readyState = 0
          /\ cached = [conn |-> Null, promise |-> Null]
          /\ \A c \in Callers : ~ ENABLED connectToDatabase(c) /\ ~ ENABLED disconnect(c)
          /\ ~ ENABLED getConnectionState

\* The module failed to load because MONGODB_URL is not defined.
C8_Witness ==
    /\ loaded = "failed"
    /\ MONGODB_URL = Undefined

\* C9: status() maps ready state 0, 1, 2, 3 to 'disconnected', 'connected',
\* 'connecting', 'disconnecting' and any other value to 'unknown'; it is
\* 'disconnected' before any connection is attempted; it never modifies the cache.
C9_StatusMapping ==
    [][getConnectionState =>
         /\ lastRet'.kind = "status"
         /\ readyState = 0 => lastRet'.hstate = "disconnected"
         /\ readyState = 1 => lastRet'.hstate = "connected"
         /\ readyState = 2 => lastRet'.hstate = "connecting"
         /\ readyState = 3 => lastRet'.hstate = "disconnecting"
         /\ readyState \notin {0, 1, 2, 3} => lastRet'.hstate = "unknown"
         /\ started = 0 => lastRet'.hstate = "disconnected"
         /\ UNCHANGED <<cached, attempts, started, pc, waits, readyState>>
      ]_vars

\* status() was called while the transport was in a state outside 0..3.
C9_Witness ==
    /\ lastRet = [kind |-> "status", h |-> Uninitialized, hstate |-> "unknown",
                  awaited |-> FALSE, nth |-> 0]
    /\ readyState = Uninitialized

----------------------------------------------------------------------------
\* The claims about slug generation (checked under EventSpec).

IsAlnum(ch) == IsLowerAscii(ch) \/ IsDigit(ch)

\* C10: the slug derived on save holds only lowercase ASCII letters, digits and
\* hyphens, neither starts nor ends with a hyphen and has no two hyphens in a row:
\* it is the title's letters and digits, lowercased and in order, with one hyphen
\* wherever a run of whitespace, underscores and hyphens separated two of them;
\* a title without letters and digits is saved with the empty slug, not rejected.
C10_SlugShape ==
    /\ (title # <<>> /\ saved # "new") => saved = "saved"
    /\ saved = "saved" =>
          LET kept == SelectSeq(ToLowerCase(title),
                                LAMBDA ch : IsAlnum(ch) \/ ch \in {" ", "_", "-"})
              gaps == {i \in 1..(Len(kept) - 1) :
                          /\ ~ IsAlnum(kept[i])
                          /\ IsAlnum(kept[i + 1])
                          /\ \E j \in 1..(i - 1) : IsAlnum(kept[j])}
          IN
          /\ \A i \in DOMAIN slug : IsAlnum(slug[i]) \/ slug[i] = "-"
          /\ slug # <<>> => (slug[1] # "-" /\ slug[Len(slug)] # "-")
          /\ \A i \in 1..(Len(slug) - 1) : ~ (slug[i] = "-" /\ slug[i + 1] = "-")
          /\ SelectSeq(slug, IsAlnum) = SelectSeq(kept, IsAlnum)
          /\ Cardinality({i \in DOMAIN slug : slug[i] = "-"}) = Cardinality(gaps)
          /\ (\A i \in DOMAIN title : ~ IsWord(title[i])) => slug = <<>>

\* A saved title in which a run of two separators stands between two word
\* characters, one of them in upper case.
C10_Witness ==
    /\ saved = "saved"
    /\ title = <<"a", " ", "_", "B">>
    /\ slug = <<"a", "-", "b">>

----------------------------------------------------------------------------
\* The claims about stored Events (checked under StoreSpec and FieldSpec).

Stored == {i \in EventIds : events[i].exists}

\* C11: the stored slug of every Event is the slug derived from its stored title,
\* whatever sequence of saves (creations, title changes, slug assignments) led
\* there.
C11_StoredSlugMatchesTitle ==
    \A i \in Stored : events[i].slug = Slugify(events[i].title)

\* C12: no two stored Events share a slug; a save of a new or retitled Event whose
\* title derives the slug of another stored Event (the empty slug included) is
\* rejected with the duplicate-key error and leaves the collection as it was.
C12_SlugUniqueAcrossEvents ==
    [][ /\ \A i, j \in EventIds :
              (i # j /\ events'[i].exists /\ events'[j].exists) =>
                  events'[i].slug # events'[j].slug
        /\ (/\ saveEvent
            /\ ValidationError = NoError /\ HookError = NoError
            /\ Runs("title")
            /\ \E i \in Stored \ {docId} : events[i].slug = Slugify(title)) =>
                  /\ saved' = DuplicateKeyError
                  /\ events' = events
      ]_vars

\* A new Event was rejected because its title, different from that of a stored
\* Event, derives the same (empty) slug.
C12_Witness ==
    /\ saved = DuplicateKeyError
    /\ isNew
    /\ title = <<"é">>
    /\ slug = <<>>
    /\ \E i \in Stored : events[i].title = <<"!">> /\ events[i].slug = <<>>

\* C13: the stored time of every Event is in the two-digit-hour form HH:MM: a
\* time given as H:MM is stored zero-padded.
C13_StoredTimeIsZeroPadded ==
    \A i \in Stored :
        /\ Len(events[i].time) = 5
        /\ TimeRegexTest(events[i].time)

\* C14: a save of a new Event, or of one whose time was modified, with a time that
\* neither matches H:MM / HH:MM nor parses as a time of day ('25:00', '12:60',
\* 'invalid') is rejected and stores nothing; when the Event is otherwise valid
\* the error is 'Time must be in HH:MM format'.
C14_UnparseableTimeIsRejected ==
    [][ (/\ saveEvent
         /\ Runs("time")
         /\ time # <<>>
         /\ \/ ~ TimeRegexTest(time) /\ ParseTimeOfDay(time) = NaN
            \/ time \in {<<"2", "5", ":", "0", "0">>, <<"1", "2", ":", "6", "0">>,
                         <<"i", "n", "v", "a", "l", "i", "d">>}) =>
            /\ saved' # "saved"
            /\ events' = events
            /\ isNew' = isNew
            /\ (ValidationError = NoError /\ ~ HookDateFails) => saved' = TimeFormatError
      ]_vars

\* A stored Event whose time was changed to '25:00' was rejected on save, and the
\* stored time is the one saved before.
C14_Witness ==
    /\ saved = TimeFormatError
    /\ ~ isNew
    /\ time = <<"2", "5", ":", "0", "0">>
    /\ events[docId].exists
    /\ TimeRegexTest(events[docId].time)

\* The UTC calendar day of the instant a date string denotes: the day it names
\* for a date-only or UTC string; for a local string the day before, the same day
\* or the day after, as the zone's offset moves its time of day across midnight.
UtcDayOf(d, zone) ==
    CASE d.form \in {"date", "utc"} -> d.day
      [] d.form = "local" /\ d.minute - zone < 0 -> d.day - 1
      [] d.form = "local" /\ d.minute - zone >= MinutesPerDay -> d.day + 1
      [] OTHER -> d.day

\* C15: on a save of a new Event, or of one whose date was modified, a parseable
\* date becomes the YYYY-MM-DD UTC calendar day of its instant, in memory and, when
\* the save succeeds, in storage; an unparseable date makes the save fail with the
\* date-format error and stores nothing.
C15_DateIsUtcCalendarDay ==
    [][ (saveEvent /\ Runs("date") /\ ValidationError = NoError) =>
          IF date.form \in {"date", "utc", "local"}
          THEN /\ date' = DateStr("date", UtcDayOf(date, tz), 0)
               /\ saved' # DateFormatError
               /\ saved' = "saved" => events'[docId].date = date'
          ELSE /\ saved' = DateFormatError
               /\ events' = events
               /\ date' = date
      ]_vars

\* An Event is stored under the day after the one its local date-time names: the
\* process runs west of UTC and the time was late in the evening.
C15_Witness ==
    /\ saved = "saved"
    /\ tz < 0
    /\ events[docId].exists
    /\ events[docId].date = DateStr("date", 3, 0)

\* C16: a save of a stored Event to which nothing was assigned since it was
\* loaded or saved succeeds and leaves slug, date and time as they were, in memory
\* and in storage, however often it is repeated.
C16_ResaveChangesNothing ==
    [][ (saveEvent /\ ~ isNew /\ modified = {}) =>
            /\ saved' = "saved"
            /\ slug' = slug /\ date' = date /\ time' = time
            /\ events' = events
            /\ modified' = {}
      ]_vars

\* The first Event was loaded again after a second one was stored, and saved; its
\* slug is one that was assigned, not the one its title derives.
C16_Witness ==
    /\ docId = 1
    /\ events[1].exists /\ events[2].exists
    /\ saved = "saved"
    /\ modified = {}
    /\ slug = events[1].slug
    /\ slug # Slugify(title)

\* The candidate's title, date and time pass the validators and the hook.
OtherFieldsValid ==
    /\ title # <<>>
    /\ date.form \in {"date", "utc", "local"}
    /\ TimeRegexTest(time)

\* C18: a save of an otherwise valid Event with an empty agenda fails with 'Agenda
\* cannot be empty' and one with empty tags (and an agenda) with 'Tags cannot be
\* empty'; no stored Event has an empty agenda or empty tags.
C18_EmptyListsAreRejectedByTheGuard ==
    [][ /\ (saveEvent /\ OtherFieldsValid /\ agenda = <<>>) =>
              saved' = "Agenda cannot be empty"
        /\ (saveEvent /\ OtherFieldsValid /\ agenda # <<>> /\ tags = <<>>) =>
              saved' = "Tags cannot be empty"
        /\ \A i \in EventIds :
              events'[i].exists => (events'[i].agenda # <<>> /\ events'[i].tags # <<>>)
      ]_vars

----------------------------------------------------------------------------
\* The claims about saves of Events and Bookings (checked under SaveSpec and
\* BookingSpec).

\* A step of a Booking save.
BookingSaveStep ==
    saveBooking \/ existsReturns \/ (\E f \in LookupFailures : existsThrows(f)) \/ writeBooking

\* C17: a save that fails leaves both collections exactly as they were, whatever
\* made it fail (a schema validator, the date or time step, the array guard, the
\* reference check, the lookup, a unique index) and whatever the hook had already
\* assigned to the candidate in memory; only the step that completes a save
\* successfully writes.
C17_FailedSaveLeavesStorage ==
    [][ /\ (saveEvent /\ saved' # "saved") => UNCHANGED <<events, bookings>>
        /\ (BookingSaveStep /\ bSaved' # SavedOk) => UNCHANGED <<events, bookings>>
      ]_vars

\* A new Event was rejected for its time after the hook had set its slug, and a
\* Booking was rejected for its reference; neither is stored.
C17_Witness ==
    /\ saved = TimeFormatError
    /\ isNew /\ slug = <<"3">>
    /\ ~ events[docId].exists
    /\ bSaved = NotExistError(NoSuchEvent)
    /\ bIsNew
    /\ ~ bookings[bId].exists

\* C19: a save of a Booking that is new or whose eventId was modified, and whose
\* fields pass the validators, looks the Event up; when the lookup finds no stored
\* Event of that identity the save fails with 'Event with ID <eventId> does not
\* exist', naming the Booking's eventId, and the bookings collection is as it was;
\* when it finds one the save goes on to the write.
C19_MissingEventIsRejected ==
    [][ /\ (saveBooking /\ BookingValidationError = NoError
                        /\ (bIsNew \/ "eventId" \in bModified)) =>
              bpc' = "exists"
        /\ (existsReturns /\ ~ (bEventId \in EventIds /\ events[bEventId].exists)) =>
              /\ bSaved' = Outcome("Event with ID ${this.eventId} does not exist", bEventId, "")
              /\ bpc' = "idle"
              /\ bookings' = bookings
              /\ bIsNew' = bIsNew
        /\ (existsReturns /\ bEventId \in EventIds /\ events[bEventId].exists) =>
              /\ bpc' = "write"
              /\ bSaved' = Saving
      ]_vars

\* A stored Booking whose eventId was changed to an identity no Event has was
\* rejected on save; it is stored with the eventId it had.
C19_Witness ==
    /\ bSaved = NotExistError(NoSuchEvent)
    /\ bEventId = NoSuchEvent
    /\ ~ bIsNew
    /\ "eventId" \in bModified
    /\ bookings[bId].exists
    /\ bookings[bId].eventId \in EventIds

\* C20: a Booking save whose fields pass the validators makes exactly one
\* Event.exists read when the Booking is new or its eventId was modified, and none
\* otherwise (a save the validators reject makes none); no later step of the save
\* reads again. So a stored Booking saved again after only its email was assigned
\* goes to the write without a read, and the write succeeds, whether or not its
\* Event is still stored, unless another Booking has the same eventId and email.
C20_OneReadOnlyWhenReferenceIsNew ==
    [][ /\ saveBooking =>
              reads' = IF /\ BookingValidationError = NoError
                          /\ (bIsNew \/ "eventId" \in bModified)
                       THEN 1 ELSE 0
        /\ (BookingSaveStep /\ ~ saveBooking) => reads' = reads
        /\ (saveBooking /\ ~ bIsNew /\ bModified \subseteq {"email"}
                        /\ BookingValidationError = NoError) =>
              (bpc' = "write" /\ reads' = 0)
        /\ (writeBooking /\ reads = 0
                         /\ ~ \E i \in BookingIds \ {bId} :
                                 /\ bookings[i].exists
                                 /\ bookings[i].eventId = bEventId
                                 /\ bookings[i].email = bEmail) =>
              /\ bSaved' = SavedOk
              /\ bookings'[bId] = BookingDoc(bEventId, bEmail)
      ]_vars

\* A stored Booking was saved again with another email and without a read, after
\* its Event was deleted.
C20_Witness ==
    /\ bSaved = SavedOk
    /\ reads = 0
    /\ bEventId \in EventIds
    /\ ~ events[bEventId].exists
    /\ bookings[bId] = BookingDoc(bEventId, <<"b", "@", "b", ".", "a">>)
    /\ \A i \in EventIds \ {bEventId} : events[i].exists

----------------------------------------------------------------------------
\* The claims about Bookings (checked under BookingSpec and the specifications
\* that follow).

\* C21: when the Event.exists lookup of a Booking save rejects, the save ends with
\* 'Failed to validate event reference: <message>' quoting the message when the
\* rejection is an Error, and with 'Failed to validate event reference' when it is
\* any other value; the save does not succeed, no write follows and the bookings
\* collection is as it was.
C21_LookupFailureIsWrapped ==
    [][ \A f \in LookupFailures :
          existsThrows(f) =>
              /\ bSaved' = IF f.isError
                           THEN Outcome("Failed to validate event reference: ${error.message}",
                                        Null, f.message)
                           ELSE Outcome("Failed to validate event reference", Null, "")
              /\ bSaved' # SavedOk
              /\ bpc' = "idle"
              /\ bookings' = bookings
              /\ bIsNew' = bIsNew
      ]_vars

\* The lookup for a new Booking of a stored Event rejected with an Error; the save
\* ended with the wrapped message and the Booking is not stored.
C21_Witness ==
    /\ bSaved = Outcome("Failed to validate event reference: ${error.message}", Null,
                        "connection lost")
    /\ bpc = "idle"
    /\ bIsNew
    /\ bEventId \in EventIds /\ events[bEventId].exists
    /\ ~ bookings[bId].exists

\* The stored Bookings other than the candidate's that have a given eventId and
\* email.
SamePair(e, em) ==
    {i \in BookingIds \ {bId} :
        bookings[i].exists /\ bookings[i].eventId = e /\ bookings[i].email = em}

\* C22: no two stored Bookings have the same eventId and the same email, whatever
\* saves wrote them and however they interleaved; the write of a save whose pair
\* another stored Booking has fails with the duplicate-key error and leaves the
\* collection as it was; the write of a save whose pair no other stored Booking
\* has succeeds, also when another one has its email with a different eventId or
\* its eventId with a different email.
C22_PairIsUnique ==
    [][ /\ \A i, j \in BookingIds :
              (i # j /\ bookings'[i].exists /\ bookings'[j].exists) =>
                  \/ bookings'[i].eventId # bookings'[j].eventId
                  \/ bookings'[i].email # bookings'[j].email
        /\ (writeBooking /\ SamePair(bEventId, bEmail) # {}) =>
              /\ bSaved' = Outcome(DuplicateKeyError, Null, "")
              /\ bookings' = bookings
        /\ (writeBooking /\ SamePair(bEventId, bEmail) = {}) =>
              /\ bSaved' = SavedOk
              /\ bookings' = [bookings EXCEPT ![bId] = BookingDoc(bEventId, bEmail)]
      ]_vars

\* Two Bookings with one email are stored for different Events; the second was
\* then given the eventId of the first and its save was rejected as a duplicate.
C22_Witness ==
    /\ bookings[1] = BookingDoc(1, <<"a", "@", "b", ".", "a">>)
    /\ bookings[2] = BookingDoc(2, <<"a", "@", "b", ".", "a">>)
    /\ bId = 2 /\ bEventId = 1 /\ bEmail = <<"a", "@", "b", ".", "a">>
    /\ bSaved = Outcome(DuplicateKeyError, Null, "")

\* The shapes of email the claim lists: no '@', an empty local part, an empty
\* domain, whitespace inside, a domain that starts with '.', a domain without '.',
\* a local part with two dots in a row. The local part ends before the first '@'
\* and the domain starts after it.
Malformed(em) ==
    LET ats == {i \in DOMAIN em : em[i] = "@"}
        at == CHOOSE k \in ats : \A j \in ats : k <= j
    IN  \/ ats = {}
        \/ /\ ats # {}
           /\ \/ at = 1
              \/ at = Len(em)
              \/ \E i \in DOMAIN em : IsSpace(em[i])
              \/ at < Len(em) /\ em[at + 1] = "."
              \/ \A i \in (at + 1)..Len(em) : em[i] # "."
              \/ \E i \in 1..(at - 2) : em[i] = "." /\ em[i + 1] = "."

\* C23: a save of a Booking whose email has one of these shapes is rejected with
\* 'Please provide a valid email address'.
C23_MalformedEmailIsRejected ==
    [][ (saveBooking /\ bEventId # Null /\ bEmail # <<>> /\ Malformed(bEmail)) =>
            bSaved' = Outcome("Please provide a valid email address", Null, "")
      ]_vars

\* C24 as stated: an otherwise valid email of 254 characters passes the
\* validators and is stored with length 254, and every email of more than 254
\* characters is rejected with 'Email cannot exceed 254 characters'.
C24_LongEmailGetsLengthError ==
    [][ /\ (saveBooking /\ bEventId # Null /\ Len(bEmail) = 254 /\ EmailRegexTest(bEmail)) =>
              bSaved' = Saving
        /\ (saveBooking /\ bEventId # Null /\ Len(bEmail) > 254) =>
              bSaved' = Outcome("Email cannot exceed 254 characters", Null, "")
        /\ \A i \in BookingIds : bookings'[i].exists => Len(bookings'[i].email) <= 254
      ]_vars

\* C24, amended: the email is measured as held after trimming and lowercasing (an
\* input of 256 characters with a space on either side is held with 254); an
\* otherwise valid email of 254 characters passes the validators and its write
\* stores it with length 254; every email of more than 254 characters is rejected
\* and not stored, with 'Email cannot exceed 254 characters' when it matches the
\* email pattern and with 'Please provide a valid email address' when it does not.
C24_LongEmailIsRejected ==
    [][ /\ \A em \in EmailInputs :
              (newBooking(1, em) /\ Len(em) = 256 /\ Len(Trim(em)) = 254) =>
                  Len(bEmail') = 254
        /\ (saveBooking /\ bEventId # Null /\ Len(bEmail) = 254 /\ EmailRegexTest(bEmail)) =>
              (bSaved' = Saving /\ bpc' # "idle")
        /\ (writeBooking /\ Len(bEmail) = 254 /\ SamePair(bEventId, bEmail) = {}) =>
              (bookings'[bId].exists /\ Len(bookings'[bId].email) = 254)
        /\ (saveBooking /\ bEventId # Null /\ Len(bEmail) > 254) =>
              /\ bSaved' = IF EmailRegexTest(bEmail)
                           THEN Outcome("Email cannot exceed 254 characters", Null, "")
                           ELSE Outcome("Please provide a valid email address", Null, "")
              /\ bpc' = "idle"
              /\ bookings' = bookings
        /\ \A i \in BookingIds : bookings'[i].exists => Len(bookings'[i].email) <= 254
      ]_vars

\* A Booking with an email of 254 characters is stored, and a second one with a
\* well-formed email of 255 characters was rejected for its length.
C24_Witness ==
    /\ bookings[1].exists /\ Len(bookings[1].email) = 254
    /\ bId = 2 /\ ~ bookings[2].exists
    /\ Len(bEmail) = 255 /\ EmailRegexTest(bEmail)
    /\ bSaved = Outcome("Email cannot exceed 254 characters", Null, "")

----------------------------------------------------------------------------
\* The further claims about the connection cache (checked under ConnSpec and
\* ConnFairSpec).

\* A cleanup step of a failed attempt: the attempt's .catch handler, or the catch
\* block of a caller that awaited it.
CleanupStep ==
    \/ \E a \in Attempts : connectRejected(a)
    \/ \E c \in Callers : connectResume(c) /\ attempts[waits[c]] = "failed"

\* C25: a cleanup step of a failed attempt leaves a newer attempt, stored as
\* pending and still in flight, where it is.
C25_CleanupKeepsNewerAttempt ==
    [][ \A n \in Attempts :
          (/\ CleanupStep
           /\ cached.promise = n
           /\ attempts[n] = "pending" /\ attempts'[n] = "pending") =>
              cached'.promise = n
      ]_vars

----------------------------------------------------------------------------
\* The claims about the Booking's reference under deletions of Events (checked
\* under BookingSpec).

\* C26 as stated: every Booking a save commits references an Event that is stored
\* at the moment of the commit, also when the Event is deleted by another
\* operation between the existence check and the commit.
C26_CommittedReferenceExists ==
    [][ (writeBooking /\ bookings' # bookings) =>
            /\ bookings'[bId].eventId \in EventIds
            /\ events'[bookings'[bId].eventId].exists
      ]_vars

\* C26, amended: every Booking a save commits after an existence check (the
\* Booking is new or its eventId was modified) references an Event that was
\* stored at the moment of that check: the save goes on to the commit only when
\* the check found the Event, the reference does not change between check and
\* commit, and the commit stores that reference. The commit does not check again,
\* so a deletion of the Event between check and commit is not detected.
C26_CommittedReferenceWasChecked ==
    [][ /\ (bpc # "write" /\ bpc' = "write" /\ reads' = 1) =>
              (bEventId \in EventIds /\ events[bEventId].exists)
        /\ bpc = "write" => (bEventId' = bEventId /\ reads' = reads)
        /\ bookings' # bookings =>
              /\ bpc = "write"
              /\ bookings' = [bookings EXCEPT ![bId] = BookingDoc(bEventId, bEmail)]
      ]_vars

\* A Booking was committed by a save that checked its reference, and the Event it
\* references is not stored.
C26_Witness ==
    /\ bSaved = SavedOk
    /\ reads = 1
    /\ bookings[bId] = BookingDoc(bEventId, bEmail)
    /\ bEventId \in EventIds
    /\ ~ events[bEventId].exists

\* C27: every acquire() that suspended completes, with the handle or with the
\* failure of the attempt it awaited, once that attempt has settled: also for a
\* caller that joined an attempt another caller started, and for a caller whose
\* wait overlaps a release().
C27_AcquireCompletes ==
    /\ \A c \in Callers : (pc[c] = "awaiting") ~> (pc[c] = "idle")
    /\ [][ \A c \in Callers :
             (pc[c] = "awaiting" /\ pc'[c] = "idle") =>
                 (lastRet'.awaited /\ lastRet'.kind \in {"handle", "error"})
         ]_vars

\* A caller that joined the attempt of another caller received the handle while
\* that caller's release() was in progress.
C27_Witness ==
    /\ lastRet.kind = "handle" /\ lastRet.awaited /\ lastRet.nth = 2
    /\ \E c \in Callers : pc[c] = "disconnecting"

----------------------------------------------------------------------------
\* The claims about the unique index and the email's normal form (checked under
\* IndexSpec).

\* Two emails differ at most in letter case and in leading or trailing whitespace.
SameAddress(x, y) == Trim(ToLowerCase(x)) = Trim(ToLowerCase(y))

\* C28: a Booking given an email that differs from the email of a stored Booking
\* of the same Event at most in letter case or surrounding whitespace holds that
\* stored Booking's pair, and the write of its save is rejected as a duplicate and
\* leaves the collection as it was; so no two stored Bookings of one Event have
\* emails that differ only in that way, and every stored email is in normal form.
C28_UniqueOnNormalizedEmail ==
    [][ /\ \A e \in IndexRefs, em \in IndexEmails :
              (/\ newBooking(e, em) \/ (setEmail(em) /\ bEventId = e)
               /\ \E i \in BookingIds \ {bId'} :
                     /\ bookings[i].exists
                     /\ bookings[i].eventId = e
                     /\ SameAddress(bookings[i].email, em)) =>
                  \E i \in BookingIds \ {bId'} :
                      bookings[i] = BookingDoc(bEventId', bEmail')
        /\ (writeBooking /\ \E i \in BookingIds \ {bId} :
                                /\ bookings[i].exists
                                /\ bookings[i].eventId = bEventId
                                /\ SameAddress(bookings[i].email, bEmail)) =>
              /\ bSaved' = Outcome(DuplicateKeyError, Null, "")
              /\ bookings' = bookings
        /\ \A i, j \in BookingIds :
              (i # j /\ bookings'[i].exists /\ bookings'[j].exists
                     /\ bookings'[i].eventId = bookings'[j].eventId) =>
                  ~ SameAddress(bookings'[i].email, bookings'[j].email)
        /\ \A i \in BookingIds :
              bookings'[i].exists =>
                  bookings'[i].email = Trim(ToLowerCase(bookings'[i].email))
      ]_vars

\* A Booking is stored with an email given in upper case or with whitespace
\* around it ('B@b.a', ' b@b.a': no input is 'b@b.a' itself), and a new Booking of
\* the same Event, given such an email too, was rejected as its duplicate.
C28_Witness ==
    /\ bookings[1] = BookingDoc(1, <<"b", "@", "b", ".", "a">>)
    /\ bId = 2 /\ bIsNew /\ ~ bookings[2].exists
    /\ bEventId = 1 /\ bEmail = <<"b", "@", "b", ".", "a">>
    /\ bSaved = Outcome(DuplicateKeyError, Null, "")

----------------------------------------------------------------------------
\* The claims about slug derivation and retried saves (checked under SlugSpec and
\* FieldSpec).

\* C29: the slug derived from a derived slug is that slug, for every title; so a
\* stored Event whose title is set to its slug keeps that slug when it is saved,
\* in memory and in storage (a title that derives the empty slug becomes empty,
\* and the save is rejected for the missing title with the slug as it was).
C29_SlugIsIdempotent ==
    [][ /\ Slugify(Slugify(title)) = Slugify(title)
        /\ (saveEvent /\ ~ isNew /\ "title" \in modified /\ title = slug) =>
              /\ slug' = slug
              /\ events'[docId].slug = slug
              /\ title # <<>> => (saved' = "saved" /\ events'[docId].title = slug)
      ]_vars

\* An Event stored with a title that is not its slug was given its slug as title,
\* and is about to be saved.
C29_Witness ==
    /\ events[1].exists
    /\ events[1].title = <<"a", " ", "_", "B">>
    /\ events[1].slug = <<"a", "-", "b">>
    /\ title = slug /\ slug = <<"a", "-", "b">>
    /\ "title" \in modified

\* What a first save persists for a title, a date and a time it accepts: the
\* hook's three steps, each applied once to the value as given.
FirstSaveSlug(t) == Slugify(TitleSetter(t))
FirstSaveDate(d, zone) == ToISODate(ParseDate(d, zone), zone)
FirstSaveTime(tm) == IF NeedsParse(tm) THEN ToTimeString(ParseTimeOfDay(tm)) ELSE tm

\* C30: a save that succeeds after a failed one persists the slug, date and time
\* that a first save of the title, date and time as the caller last gave them
\* persists (for a stored Event, of the fields assigned since it was loaded or
\* saved; the others stay as stored), whatever the failed attempts had already
\* put in the candidate in memory.
C30_RetryPersistsFirstSaveResult ==
    [][ (saveEvent /\ saved \notin {"new", "saved"} /\ saved' = "saved") =>
            /\ events'[docId].slug =
                  IF isNew \/ "title" \in modified THEN FirstSaveSlug(given.title)
                  ELSE events[docId].slug
            /\ events'[docId].date =
                  IF isNew \/ "date" \in modified THEN FirstSaveDate(given.date, tz)
                  ELSE events[docId].date
            /\ events'[docId].time =
                  IF isNew \/ "time" \in modified THEN FirstSaveTime(given.time)
                  ELSE events[docId].time
      ]_vars

\* A new Event was rejected for its time after the hook had set its slug and
\* replaced the local date-time it was given by the UTC day, the next one; the
\* time has been corrected and the Event is about to be saved again.
C30_Witness ==
    /\ saved = TimeFormatError
    /\ isNew
    /\ slug = <<"a">>
    /\ tz < 0
    /\ given.date = DateStr("local", 2, 1410)
    /\ date = DateStr("date", 3, 0)
    /\ given.time = <<"1", "4", ":", "3", "0">> /\ time = given.time
    /\ agenda # <<>> /\ tags # <<>>

====
